---- MODULE Spec2Model ----
(***************************************************************************)
(* A model of src/main.py: the ClinicalNote entity, the NoteDatabase       *)
(* (SQLite store reached through one connection) and the NoteParser.       *)
(*                                                                         *)
(* The store is modelled at the level of its two tables.  The rows the     *)
(* connection reads (clinical_notes, audio_recordings) include the writes  *)
(* of the transaction that is still open; `committed` is what the last     *)
(* conn.commit() made durable.                                             *)
(***************************************************************************)
EXTENDS Integers, Sequences, FiniteSets, TLC

VARIABLES
    now,               \* the last reading of datetime.now(), in half seconds
    note,              \* the ClinicalNote object the caller holds: <<>> or <<object>>
    nobjects,          \* how many ClinicalNote objects the caller has constructed
    nedits,            \* how many add_* and set_audio_data calls the caller has made
    clinical_notes,    \* rows of table clinical_notes as the connection reads them
    audio_recordings,  \* rows of table audio_recordings as the connection reads them
    sqlite_sequence,   \* AUTOINCREMENT counters of the two tables
    committed,         \* the tables as of the last conn.commit()
    ret,               \* the last call on the store and what it returned
    saved,             \* history: id of a saved, not deleted note -> the object as saved
    returned,          \* history: the ids save_note returned, in call order
    failed_ids,        \* history: ids of rows inserted by a save_note that raised
    reports,           \* history: what generate_note returned, and for which note
    heard,             \* history: what create_note_from_voice was given and heard
    statement,         \* NoteParser: the sentence being categorized
    category,          \* NoteParser: what categorize_statement returned for it
    spoken,            \* history: the utterances of the encounter, in order
    transcript,        \* NoteParser: the encounter text, the utterances in a row
    parsed             \* NoteParser: what parse_encounter returned for it

storeVars == <<now, note, nobjects, nedits, clinical_notes, audio_recordings,
               sqlite_sequence, committed, ret, saved, returned, failed_ids,
               reports, heard>>
sentenceVars == <<statement, category>>
encounterVars == <<spoken, transcript, parsed>>
parserVars == <<statement, category, spoken, transcript, parsed>>
vars == <<now, note, nobjects, nedits, clinical_notes, audio_recordings,
          sqlite_sequence, committed, ret, saved, returned, failed_ids,
          reports, heard, statement, category, spoken, transcript, parsed>>

----------------------------------------------------------------------------
(* Bounds of the model *)

\* Spec: the store's tables under saves (that may fail) and deletes
MaxObjects == 2
MaxSaves == 2
MaxAudioSets == 1
\* SpecContent: one note's content through edits, saves and reads
MaxContentObjects == 1
MaxContentSaves == 2
MaxEdits == 2
\* SpecSearch: searches over a store of a few notes
MaxSearchObjects == 2
MaxSearchSaves == 2
\* SpecParser: the sentences given to categorize_statement, in words
MaxWords == 3
\* SpecEncounter: the encounter given to parse_encounter, in utterances
MaxUtterances == 3
\* SpecVoice: notes dictated, saved and rendered
MaxVoiceNotes == 1
MaxVoiceSaves == 1
MaxReports == 2

----------------------------------------------------------------------------
(* Python values *)

\* Optional[T]: None is the empty sequence, a value x is <<x>>.
None == <<>>
Some(x) == <<x>>

\* Truthiness of an Optional[bytes] / Optional[str]: None and the empty
\* value are both false (`if note.audio_data:`, `if patient_id:`).
Truthy(opt) == opt # None /\ Len(opt[1]) > 0

Max(S) == IF S = {} THEN 0 ELSE CHOOSE x \in S : \A y \in S : y <= x

\* datetime: the clock counts half seconds; a datetime has whole seconds and
\* microseconds.
Datetime(t) == [second |-> t \div 2, microsecond |-> (t % 2) * 500000]

\* datetime.isoformat(): the fraction is written only when it is not zero.
\* The text is the sequence of its fields.
isoformat(dt) == IF dt.microsecond = 0 THEN <<dt.second>>
                 ELSE <<dt.second, dt.microsecond>>

\* datetime.fromisoformat(): a missing fraction reads as zero microseconds.
fromisoformat(text) == [second |-> text[1],
                        microsecond |-> IF Len(text) > 1 THEN text[2] ELSE 0]

\* SQLite's comparison of two TEXT values (BINARY collation): lexicographic,
\* a proper prefix sorts first.
RECURSIVE TextLE(_, _)
TextLE(a, b) ==
    IF a = <<>> THEN TRUE
    ELSE IF b = <<>> THEN FALSE
    ELSE IF a[1] # b[1] THEN a[1] < b[1]
    ELSE TextLE(Tail(a), Tail(b))

\* json.dumps of a list of strings, as the text's tokens:  [ "s1" , "s2" ]
Tok(kind, val) == [tok |-> kind, val |-> val]

RECURSIVE json_items(_)
json_items(list) ==
    IF list = <<>> THEN <<>>
    ELSE IF Len(list) = 1 THEN <<Tok("str", list[1])>>
    ELSE <<Tok("str", list[1]), Tok(",", "")>> \o json_items(Tail(list))

json_dumps(list) == <<Tok("[", "")>> \o json_items(list) \o <<Tok("]", "")>>

\* json.loads of such a text: the strings between the brackets, in order.
RECURSIVE json_loads_items(_)
json_loads_items(text) ==
    IF text = <<>> THEN <<>>
    ELSE IF text[1].tok = "str" THEN <<text[1].val>> \o json_loads_items(Tail(text))
    ELSE json_loads_items(Tail(text))

json_loads(text) == json_loads_items(SubSeq(text, 2, Len(text) - 1))

\* What a call on the store leaves with the caller.
NoStats == [total_notes |-> 0, total_patients |-> 0,
            total_physicians |-> 0, total_audio_recordings |-> 0]
NoArgs == [patient_id |-> None, physician_name |-> None,
           start_date |-> None, end_date |-> None, limit |-> 0]
NoCall == [op |-> "none", raised |-> FALSE, arg |-> 0, id |-> 0, ok |-> FALSE,
           note |-> None, notes |-> <<>>, stats |-> NoStats, args |-> NoArgs]

----------------------------------------------------------------------------
(* ClinicalNote *)

\* The constructor arguments the callers use: <<patient_id, physician_name, language>>
Callers == {<<"PT-12345", "Dr. Sarah Johnson", "en-US">>,
            <<"PT-12345", "Dr. Maria Garcia", "es-ES">>,
            <<"PT-67890", "Dr. Maria Garcia", "es-ES">>}
Patients == {c[1] : c \in Callers}
Physicians == {c[2] : c \in Callers}
Texts == {"Patient complains of cough", "BP 128/82"}
\* b"" and one non-empty payload
AudioPayloads == {<<>>, <<82, 73, 70, 70>>}

\* ClinicalNote.__init__; oid is the identity of the Python object, clock the
\* reading of datetime.now().
ClinicalNote(oid, clock, patient_id, physician_name, language) ==
    [oid |-> oid,
     note_id |-> None,
     patient_id |-> patient_id,
     physician_name |-> physician_name,
     language |-> language,
     timestamp |-> Datetime(clock),
     subjective |-> <<>>,
     objective |-> <<>>,
     assessment |-> <<>>,
     plan |-> <<>>,
     audio_data |-> None]

\* The caller constructs a new note object and lets go of the one it held.
\* The clock has not gone back since it was last read.
NewNote(clock, patient_id, physician_name, language) ==
    /\ nobjects' = nobjects + 1
    /\ clock >= now
    /\ now' = clock
    /\ note' = Some(ClinicalNote(nobjects + 1, clock, patient_id, physician_name, language))
    /\ ret' = NoCall
    /\ UNCHANGED <<nedits, clinical_notes, audio_recordings, sqlite_sequence,
                   committed, saved, returned, failed_ids>>
    /\ UNCHANGED <<reports, heard, parserVars>>

add_subjective(text) ==
    /\ note # None
    /\ nedits' = nedits + 1
    /\ note' = Some([note[1] EXCEPT !.subjective = Append(@, text)])
    /\ ret' = NoCall
    /\ UNCHANGED <<now, nobjects, clinical_notes, audio_recordings, sqlite_sequence,
                   committed, saved, returned, failed_ids>>
    /\ UNCHANGED <<reports, heard, parserVars>>

add_objective(text) ==
    /\ note # None
    /\ nedits' = nedits + 1
    /\ note' = Some([note[1] EXCEPT !.objective = Append(@, text)])
    /\ ret' = NoCall
    /\ UNCHANGED <<now, nobjects, clinical_notes, audio_recordings, sqlite_sequence,
                   committed, saved, returned, failed_ids>>
    /\ UNCHANGED <<reports, heard, parserVars>>

add_assessment(text) ==
    /\ note # None
    /\ nedits' = nedits + 1
    /\ note' = Some([note[1] EXCEPT !.assessment = Append(@, text)])
    /\ ret' = NoCall
    /\ UNCHANGED <<now, nobjects, clinical_notes, audio_recordings, sqlite_sequence,
                   committed, saved, returned, failed_ids>>
    /\ UNCHANGED <<reports, heard, parserVars>>

add_plan(text) ==
    /\ note # None
    /\ nedits' = nedits + 1
    /\ note' = Some([note[1] EXCEPT !.plan = Append(@, text)])
    /\ ret' = NoCall
    /\ UNCHANGED <<now, nobjects, clinical_notes, audio_recordings, sqlite_sequence,
                   committed, saved, returned, failed_ids>>
    /\ UNCHANGED <<reports, heard, parserVars>>

set_audio_data(audio_bytes) ==
    /\ note # None
    /\ nedits' = nedits + 1
    /\ note' = Some([note[1] EXCEPT !.audio_data = Some(audio_bytes)])
    /\ ret' = NoCall
    /\ UNCHANGED <<now, nobjects, clinical_notes, audio_recordings,
                   sqlite_sequence, committed, saved, returned, failed_ids>>
    /\ UNCHANGED <<reports, heard, parserVars>>

\* lang_display: the language's name, or the code itself if it has none.
lang_display(language) ==
    CASE language = "en-US" -> "English"
      [] language = "es-ES" -> "Spanish"
      [] language = "fr-FR" -> "French"
      [] language = "it-IT" -> "Italian"
      [] language = "tr-TR" -> "Turkish"
      [] language = "de-DE" -> "German"
      [] OTHER -> language

\* timestamp.strftime('%Y-%m-%d %H:%M'): the minute, seconds dropped.
strftime(dt) == ToString(dt.second \div 60)

\* ClinicalNote._format_section, as lines.
format_section(items) ==
    IF items = <<>> THEN <<"  [Not documented]">>
    ELSE [i \in 1..Len(items) |-> "  - " \o items[i]]

\* '=' * 60
Rule == "============================================================"

\* What generate_note returns for a note, as lines: the template filled in
\* and stripped of the line breaks around it.
GenerateNoteResult(n) ==
    <<"CLINICAL NOTE",
      "Date: " \o strftime(n.timestamp),
      "Patient ID: " \o n.patient_id,
      "Physician: " \o n.physician_name,
      "Language: " \o lang_display(n.language),
      IF n.note_id # None /\ n.note_id[1] # 0
      THEN "Note ID: " \o ToString(n.note_id[1]) ELSE "",
      "", Rule, "",
      "SUBJECTIVE:">> \o format_section(n.subjective) \o
    <<"", "OBJECTIVE:">> \o format_section(n.objective) \o
    <<"", "ASSESSMENT:">> \o format_section(n.assessment) \o
    <<"", "PLAN:">> \o format_section(n.plan) \o
    <<"", Rule, "Electronically signed by: " \o n.physician_name>>

\* Mutant: rendering an empty section writes the marker into the section.
generate_note_fills_empty ==
    /\ note # None
    /\ reports' = Append(reports, [of |-> note[1], text |-> GenerateNoteResult(note[1])])
    /\ ret' = [NoCall EXCEPT !.op = "generate_note"]
    /\ note' = Some([note[1] EXCEPT
                        !.plan = IF @ = <<>> THEN <<"[Not documented]">> ELSE @])
    /\ UNCHANGED <<now, nobjects, nedits, clinical_notes, audio_recordings,
                   sqlite_sequence, committed, saved, returned, failed_ids, heard>>
    /\ UNCHANGED parserVars

\* ClinicalNote.generate_note: reads the note, returns the text.
generate_note ==
    /\ note # None
    /\ reports' = Append(reports, [of |-> note[1], text |-> GenerateNoteResult(note[1])])
    /\ ret' = [NoCall EXCEPT !.op = "generate_note"]
    /\ UNCHANGED <<now, note, nobjects, nedits, clinical_notes, audio_recordings,
                   sqlite_sequence, committed, saved, returned, failed_ids, heard>>
    /\ UNCHANGED parserVars

----------------------------------------------------------------------------
(* NoteDatabase *)

\* Mutant: a plain INTEGER PRIMARY KEY, which hands out max(rowid) + 1 again.
lastrowid_max_rowid(seq, rowids) == Max(rowids) + 1

\* INTEGER PRIMARY KEY AUTOINCREMENT: one more than the largest rowid the
\* table has ever held (sqlite_sequence), deleted rows included.
lastrowid(seq, rowids) == Max({seq} \cup rowids) + 1

\* The row INSERT INTO clinical_notes writes (created_at, which nothing reads,
\* is left out).
NoteRow(note_id, n) ==
    [note_id |-> note_id,
     patient_id |-> n.patient_id,
     physician_name |-> n.physician_name,
     language |-> n.language,
     timestamp |-> isoformat(n.timestamp),
     subjective |-> json_dumps(n.subjective),
     objective |-> json_dumps(n.objective),
     assessment |-> json_dumps(n.assessment),
     plan |-> json_dumps(n.plan)]

\* Mutant: every audio row is written under the first note's id.
AudioRow_first_note(audio_id, note_id, audio_data) ==
    [audio_id |-> audio_id, note_id |-> 1,
     audio_data |-> audio_data, audio_format |-> "wav"]

\* The row INSERT INTO audio_recordings writes.
AudioRow(audio_id, note_id, audio_data) ==
    [audio_id |-> audio_id, note_id |-> note_id,
     audio_data |-> audio_data, audio_format |-> "wav"]

\* Where the storage engine may refuse a write of save_note.
FailPoints == {"none", "insert_note", "insert_audio", "commit"}

\* Does save_note insert an audio row for this note?  (`if note.audio_data:`)
SavesAudio(n) == Truthy(n.audio_data)

\* NoteDatabase.save_note.  An sqlite3 error leaves the method where it is
\* raised: nothing is rolled back and the transaction stays open.
save_note(fail) ==
    /\ note # None
    /\ fail = "insert_audio" => SavesAudio(note[1])
    /\ IF fail = "insert_note"
       THEN /\ ret' = [NoCall EXCEPT !.op = "save_note", !.raised = TRUE]
            /\ UNCHANGED <<note, clinical_notes, audio_recordings, sqlite_sequence,
                           committed, saved, returned, failed_ids>>
       ELSE LET n == note[1]
                note_id == lastrowid(sqlite_sequence.clinical_notes,
                                     {r.note_id : r \in clinical_notes})
                audio_id == lastrowid(sqlite_sequence.audio_recordings,
                                      {r.audio_id : r \in audio_recordings})
                audio == SavesAudio(n) /\ fail # "insert_audio"
                held == [n EXCEPT !.note_id = Some(note_id)]
            IN  /\ clinical_notes' = clinical_notes \cup {NoteRow(note_id, n)}
                /\ note' = Some(held)
                /\ audio_recordings' =
                       IF audio
                       THEN audio_recordings
                                \cup {AudioRow(audio_id, note_id, n.audio_data[1])}
                       ELSE audio_recordings
                /\ sqlite_sequence' =
                       [clinical_notes |-> note_id,
                        audio_recordings |-> IF audio THEN audio_id
                                             ELSE sqlite_sequence.audio_recordings]
                /\ committed' =
                       IF fail = "none"
                       THEN [clinical_notes |-> clinical_notes',
                             audio_recordings |-> audio_recordings']
                       ELSE committed
                /\ ret' = IF fail = "none"
                          THEN [NoCall EXCEPT !.op = "save_note", !.id = note_id]
                          ELSE [NoCall EXCEPT !.op = "save_note", !.raised = TRUE]
                /\ saved' = IF fail = "none" THEN (note_id :> held) @@ saved ELSE saved
                /\ returned' = IF fail = "none" THEN Append(returned, note_id)
                               ELSE returned
                /\ failed_ids' = IF fail = "none" THEN failed_ids
                                 ELSE failed_ids \cup {note_id}
    /\ UNCHANGED <<now, nobjects, nedits>>
    /\ UNCHANGED <<reports, heard, parserVars>>

\* The ClinicalNote get_note and search_notes build from a row.
RowToNote(row) ==
    [oid |-> 0,
     note_id |-> Some(row.note_id),
     patient_id |-> row.patient_id,
     physician_name |-> row.physician_name,
     language |-> row.language,
     timestamp |-> fromisoformat(row.timestamp),
     subjective |-> json_loads(row.subjective),
     objective |-> json_loads(row.objective),
     assessment |-> json_loads(row.assessment),
     plan |-> json_loads(row.plan),
     audio_data |-> None]

\* SELECT audio_data FROM audio_recordings WHERE note_id = ?  and fetchone():
\* the table is scanned in rowid order.
get_audio(note_id) ==
    LET rows == {r \in audio_recordings : r.note_id = note_id}
    IN  IF rows = {} THEN None
        ELSE Some((CHOOSE r \in rows : \A q \in rows : r.audio_id <= q.audio_id).audio_data)

\* What get_note returns: None, or the note with its audio.
GetNoteResult(note_id) ==
    LET rows == {r \in clinical_notes : r.note_id = note_id}
    IN  IF rows = {} THEN None
        ELSE LET row == CHOOSE r \in rows : TRUE
                 audio == get_audio(note_id)
             IN  Some(IF audio # None
                      THEN [RowToNote(row) EXCEPT !.audio_data = audio]
                      ELSE RowToNote(row))

\* NoteDatabase.get_note
get_note(note_id) ==
    /\ ret' = [NoCall EXCEPT !.op = "get_note", !.arg = note_id,
                             !.note = GetNoteResult(note_id)]
    /\ UNCHANGED <<now, note, nobjects, nedits, clinical_notes, audio_recordings,
                   sqlite_sequence, committed, saved, returned, failed_ids>>
    /\ UNCHANGED <<reports, heard, parserVars>>

\* Mutant: the audio rows are not deleted.
DeleteAudio_skipped(rows, note_id) == rows

\* Mutant: DELETE FROM audio_recordings without its WHERE clause.
DeleteAudio_all(rows, note_id) == {}

\* DELETE FROM audio_recordings WHERE note_id = ?
DeleteAudio(rows, note_id) == {r \in rows : r.note_id # note_id}

\* DELETE FROM clinical_notes WHERE note_id = ?
DeleteNoteRow(rows, note_id) == {r \in rows : r.note_id # note_id}

\* Mutant: delete_note without its check that the note exists.
NoteExists_unchecked(note_id) == TRUE

\* SELECT note_id FROM clinical_notes WHERE note_id = ?  finds a row
NoteExists(note_id) == \E r \in clinical_notes : r.note_id = note_id

\* NoteDatabase.delete_note
delete_note(note_id) ==
    /\ IF ~NoteExists(note_id)
       THEN /\ ret' = [NoCall EXCEPT !.op = "delete_note", !.arg = note_id,
                                     !.ok = FALSE]
            /\ UNCHANGED <<clinical_notes, audio_recordings, committed, saved>>
       ELSE /\ audio_recordings' = DeleteAudio(audio_recordings, note_id)
            /\ clinical_notes' = DeleteNoteRow(clinical_notes, note_id)
            /\ committed' = [clinical_notes |-> clinical_notes',
                             audio_recordings |-> audio_recordings']
            /\ ret' = [NoCall EXCEPT !.op = "delete_note", !.arg = note_id,
                                     !.ok = TRUE]
            /\ saved' = [id \in DOMAIN saved \ {note_id} |-> saved[id]]
    /\ UNCHANGED <<now, note, nobjects, nedits, sqlite_sequence, returned, failed_ids>>
    /\ UNCHANGED <<reports, heard, parserVars>>

\* SELECT COUNT(*) FROM <table>
Count(rows) == Cardinality(rows)

\* Mutant: COUNT(patient_id), without DISTINCT.
CountPatients(rows) == Cardinality(rows)

\* SELECT COUNT(DISTINCT <column>) FROM clinical_notes
CountDistinctPatients(rows) == Cardinality({r.patient_id : r \in rows})
CountDistinctPhysicians(rows) == Cardinality({r.physician_name : r \in rows})

\* NoteDatabase.get_statistics
get_statistics ==
    /\ ret' = [NoCall EXCEPT !.op = "get_statistics", !.stats =
                 [total_notes |-> Count(clinical_notes),
                  total_patients |-> CountDistinctPatients(clinical_notes),
                  total_physicians |-> CountDistinctPhysicians(clinical_notes),
                  total_audio_recordings |-> Count(audio_recordings)]]
    /\ UNCHANGED <<now, note, nobjects, nedits, clinical_notes, audio_recordings,
                   sqlite_sequence, committed, saved, returned, failed_ids>>
    /\ UNCHANGED <<reports, heard, parserVars>>

\* Mutant: the date range taken without its bounds (timestamp > ?, < ?).
SearchMatches_exclusive(row, patient_id, physician_name, start_date, end_date) ==
    /\ Truthy(patient_id) => row.patient_id = patient_id[1]
    /\ Truthy(physician_name) => row.physician_name = physician_name[1]
    /\ start_date # None =>
           /\ TextLE(isoformat(start_date[1]), row.timestamp)
           /\ isoformat(start_date[1]) # row.timestamp
    /\ end_date # None =>
           /\ TextLE(row.timestamp, isoformat(end_date[1]))
           /\ isoformat(end_date[1]) # row.timestamp

\* The WHERE clause search_notes builds: a filter that is None or empty adds
\* no condition; the dates are compared as their isoformat() texts.
SearchMatches(row, patient_id, physician_name, start_date, end_date) ==
    /\ Truthy(patient_id) => row.patient_id = patient_id[1]
    /\ Truthy(physician_name) => row.physician_name = physician_name[1]
    /\ start_date # None => TextLE(isoformat(start_date[1]), row.timestamp)
    /\ end_date # None => TextLE(row.timestamp, isoformat(end_date[1]))

\* ORDER BY timestamp DESC: every order of the rows with the timestamps
\* descending (SQLite leaves the order of equal timestamps open).
OrderByTimestampDesc(rows) ==
    {q \in [1..Cardinality(rows) -> rows] :
        /\ \A i, j \in 1..Cardinality(rows) : i # j => q[i] # q[j]
        /\ \A i, j \in 1..Cardinality(rows) :
               i < j => TextLE(q[j].timestamp, q[i].timestamp)}

\* LIMIT ?
Limit(q, limit) == SubSeq(q, 1, IF limit < Len(q) THEN limit ELSE Len(q))

\* default of search_notes' limit
DefaultLimit == 100

\* NoteDatabase.search_notes
search_notes(patient_id, physician_name, start_date, end_date, limit) ==
    /\ \E q \in OrderByTimestampDesc(
                  {r \in clinical_notes :
                      SearchMatches(r, patient_id, physician_name, start_date, end_date)}) :
           ret' = [NoCall EXCEPT
                     !.op = "search_notes",
                     !.args = [patient_id |-> patient_id,
                               physician_name |-> physician_name,
                               start_date |-> start_date, end_date |-> end_date,
                               limit |-> limit],
                     !.notes = [i \in 1..Len(Limit(q, limit)) |->
                                   RowToNote(Limit(q, limit)[i])]]
    /\ UNCHANGED <<now, note, nobjects, nedits, clinical_notes, audio_recordings,
                   sqlite_sequence, committed, saved, returned, failed_ids>>
    /\ UNCHANGED <<reports, heard, parserVars>>

----------------------------------------------------------------------------
(* NoteParser *)

\* str.lower() of one character
LowerChar(c) ==
    CASE c = "A" -> "a" [] c = "B" -> "b" [] c = "C" -> "c" [] c = "D" -> "d"
      [] c = "E" -> "e" [] c = "F" -> "f" [] c = "G" -> "g" [] c = "H" -> "h"
      [] c = "I" -> "i" [] c = "J" -> "j" [] c = "K" -> "k" [] c = "L" -> "l"
      [] c = "M" -> "m" [] c = "N" -> "n" [] c = "O" -> "o" [] c = "P" -> "p"
      [] c = "Q" -> "q" [] c = "R" -> "r" [] c = "S" -> "s" [] c = "T" -> "t"
      [] c = "U" -> "u" [] c = "V" -> "v" [] c = "W" -> "w" [] c = "X" -> "x"
      [] c = "Y" -> "y" [] c = "Z" -> "z" [] OTHER -> c

\* str.lower()
RECURSIVE lower(_)
lower(str) == IF Len(str) = 0 THEN ""
              ELSE LowerChar(SubSeq(str, 1, 1)) \o lower(Tail(str))

\* Python's `keyword in text`: keyword occurs as a substring of text
In(keyword, text) ==
    \E i \in 1..(Len(text) - Len(keyword) + 1) :
        SubSeq(text, i, i + Len(keyword) - 1) = keyword

SUBJECTIVE_KEYWORDS ==
    <<"complains", "reports", "states", "feels", "experiencing",
      "symptoms", "pain", "discomfort", "history", "denies">>

OBJECTIVE_KEYWORDS ==
    <<"bp", "blood pressure", "heart rate", "hr", "temp", "temperature",
      "exam", "examination", "auscultation", "palpation", "inspection",
      "lab", "test", "result", "x-ray", "imaging", "vitals">>

ASSESSMENT_KEYWORDS ==
    <<"diagnosis", "differential", "impression", "consistent with",
      "likely", "suspect", "presents with", "appears to be">>

PLAN_KEYWORDS ==
    <<"prescribe", "medication", "treat", "follow up", "return",
      "refer", "order", "recommend", "advise", "therapy">>

\* for keyword in KEYWORDS: if keyword in statement_lower: return ...
\* TRUE when the loop returns, FALSE when it runs to its end.
RECURSIVE LoopReturns(_, _)
LoopReturns(keywords, statement_lower) ==
    IF keywords = <<>> THEN FALSE
    ELSE IF In(Head(keywords), statement_lower) THEN TRUE
    ELSE LoopReturns(Tail(keywords), statement_lower)

\* Mutant: the four loops in the order of the note's sections.
categorize_statement_soap_order(text) ==
    LET statement_lower == lower(text)
    IN  IF LoopReturns(SUBJECTIVE_KEYWORDS, statement_lower) THEN "subjective"
        ELSE IF LoopReturns(OBJECTIVE_KEYWORDS, statement_lower) THEN "objective"
        ELSE IF LoopReturns(ASSESSMENT_KEYWORDS, statement_lower) THEN "assessment"
        ELSE IF LoopReturns(PLAN_KEYWORDS, statement_lower) THEN "plan"
        ELSE "subjective"

\* NoteParser.categorize_statement
categorize_statement(text) ==
    LET statement_lower == lower(text)
    IN  IF LoopReturns(PLAN_KEYWORDS, statement_lower) THEN "plan"
        ELSE IF LoopReturns(ASSESSMENT_KEYWORDS, statement_lower) THEN "assessment"
        ELSE IF LoopReturns(OBJECTIVE_KEYWORDS, statement_lower) THEN "objective"
        ELSE IF LoopReturns(SUBJECTIVE_KEYWORDS, statement_lower) THEN "subjective"
        ELSE "subjective"

\* The words a sentence is dictated in.
Words == {"Patient", "cough", "Will", "up", "Follow", "Prescribe",
          "Diagnosis:", "Likely", "BP", "Three", "Denies", "PAIN"}

\* The sentence: its words, single spaces between them.
RECURSIVE Sentence(_)
Sentence(words) ==
    IF words = <<>> THEN ""
    ELSE IF Len(words) = 1 THEN words[1]
    ELSE words[1] \o " " \o Sentence(Tail(words))

\* The speaker adds a word to the sentence.
Dictate(word) ==
    /\ statement' = Append(statement, word)
    /\ category' = "none"
    /\ UNCHANGED encounterVars
    /\ UNCHANGED storeVars

\* The sentence is given to categorize_statement.
Categorize ==
    /\ category' = categorize_statement(Sentence(statement))
    /\ UNCHANGED statement
    /\ UNCHANGED encounterVars
    /\ UNCHANGED storeVars

\* str.replace(old, new) for a one-character old.
RECURSIVE replace(_, _, _)
replace(str, old, new) ==
    IF Len(str) = 0 THEN ""
    ELSE (IF SubSeq(str, 1, 1) = old THEN new ELSE SubSeq(str, 1, 1))
             \o replace(Tail(str), old, new)

\* str.split(sep) for a one-character sep: the pieces between the separators,
\* the empty ones included.
RECURSIVE split(_, _)
split(str, sep) ==
    IF \E i \in 1..Len(str) : SubSeq(str, i, i) = sep
    THEN LET i == CHOOSE k \in 1..Len(str) :
                      /\ SubSeq(str, k, k) = sep
                      /\ \A j \in 1..(k - 1) : SubSeq(str, j, j) # sep
         IN  <<SubSeq(str, 1, i - 1)>> \o split(SubSeq(str, i + 1, Len(str)), sep)
    ELSE <<str>>

\* The whitespace str.strip() removes (of it, what a transcript can hold).
Whitespace == {" ", "\t", "\n", "\r"}

RECURSIVE lstrip(_)
lstrip(str) ==
    IF Len(str) > 0 /\ SubSeq(str, 1, 1) \in Whitespace THEN lstrip(Tail(str))
    ELSE str

RECURSIVE rstrip(_)
rstrip(str) ==
    IF Len(str) > 0 /\ SubSeq(str, Len(str), Len(str)) \in Whitespace
    THEN rstrip(SubSeq(str, 1, Len(str) - 1))
    ELSE str

strip(str) == rstrip(lstrip(str))

\* [s.strip() for s in text.replace('\n', '. ').split('.') if s.strip()]
SplitSentences(text) ==
    LET pieces == split(replace(text, "\n", ". "), ".")
        stripped == [i \in 1..Len(pieces) |-> strip(pieces[i])]
    IN  SelectSeq(stripped, LAMBDA t : Len(t) > 0)

\* The result parse_encounter starts from.
EmptyResult == [subjective |-> <<>>, objective |-> <<>>,
                assessment |-> <<>>, plan |-> <<>>]

\* Mutant: each sentence is put in front of its category's list.
RECURSIVE AppendEach_in_front(_, _)
AppendEach_in_front(sentences, result) ==
    IF sentences = <<>> THEN result
    ELSE LET sentence == Head(sentences)
             cat == categorize_statement(sentence)
         IN  AppendEach_in_front(Tail(sentences),
                                 [result EXCEPT ![cat] = <<sentence>> \o @])

\* for sentence in sentences: result[category].append(sentence)
RECURSIVE AppendEach(_, _)
AppendEach(sentences, result) ==
    IF sentences = <<>> THEN result
    ELSE LET sentence == Head(sentences)
             cat == categorize_statement(sentence)
         IN  AppendEach(Tail(sentences), [result EXCEPT ![cat] = Append(@, sentence)])

\* NoteParser.parse_encounter
parse_encounter(text) == AppendEach(SplitSentences(text), EmptyResult)

\* What is said in an encounter: phrases (one with a blank in front, an empty
\* one), each followed by a full stop, a line break or a blank.
Phrases == {"BP up", " HR 80", "Will treat", ""}
Separators == {".", "\n", " "}

\* The speaker says a phrase; the transcript grows by it and what follows it.
Say(phrase, sep) ==
    /\ spoken' = Append(spoken, <<phrase, sep>>)
    /\ transcript' = transcript \o phrase \o sep
    /\ parsed' = None
    /\ UNCHANGED sentenceVars
    /\ UNCHANGED storeVars

\* The transcript is given to parse_encounter.
Parse ==
    /\ parsed' = Some(parse_encounter(transcript))
    /\ UNCHANGED <<spoken, transcript>>
    /\ UNCHANGED sentenceVars
    /\ UNCHANGED storeVars

----------------------------------------------------------------------------
(* VoiceRecorder and note creation *)

\* What the speech library does in a call: it raises, or it returns the text
\* it recognized and the recording's bytes.
Raises(error) == [error |-> Some(error), text |-> "", audio |-> <<>>]
Hears(text, audio) == [error |-> None, text |-> text, audio |-> audio]

\* The errors of an audio file (missing, unreadable, unintelligible, service
\* unreachable) and of the microphone (no speech, no device, and the same two).
FileErrors == {"FileNotFoundError", "ValueError", "UnknownValueError", "RequestError"}
MicrophoneErrors == {"WaitTimeoutError", "OSError", "UnknownValueError", "RequestError"}

\* The texts and recordings the speech library returns.
Recognized == {"", "BP up. Will treat"}
Recordings == {<<>>, <<82, 73, 70, 70>>}

\* Mutant: an except clause catches the class it names and no subclass of it.
Caught_by_name(clauses, error) == \E i \in 1..Len(clauses) : clauses[i] = error

\* Is the error caught by one of the except clauses?  Each of the errors is
\* an Exception.
Caught(clauses, error) ==
    \E i \in 1..Len(clauses) : clauses[i] = error \/ clauses[i] = "Exception"

\* What a method of VoiceRecorder returns, or that it raised.
Transcription(outcome, clauses) ==
    IF outcome.error = None
    THEN [raised |-> FALSE, text |-> outcome.text, audio |-> outcome.audio]
    ELSE IF Caught(clauses, outcome.error[1])
         THEN [raised |-> FALSE, text |-> "", audio |-> <<>>]
         ELSE [raised |-> TRUE, text |-> "", audio |-> <<>>]

\* VoiceRecorder.transcribe_audio_file
transcribe_audio_file(outcome) ==
    Transcription(outcome, <<"FileNotFoundError", "UnknownValueError",
                             "RequestError", "Exception">>)

\* VoiceRecorder.record_with_pause_detection
record_with_pause_detection(outcome) == Transcription(outcome, <<"Exception">>)

\* create_note_from_text: a new note with the parsed sentences appended, each
\* category's in order.
create_note_from_text(oid, clock, encounter_text, patient_id, physician_name, language) ==
    LET n == ClinicalNote(oid, clock, patient_id, physician_name, language)
        p == parse_encounter(encounter_text)
    IN  [n EXCEPT !.subjective = @ \o p.subjective,
                  !.objective = @ \o p.objective,
                  !.assessment = @ \o p.assessment,
                  !.plan = @ \o p.plan]

\* The audio_file arguments: none (the microphone is used) or a path.
AudioFiles == {None, Some("encounter.wav")}

\* create_note_from_voice, the speech library doing `outcome`.  An error no
\* except clause catches leaves the call with no note returned.
create_note_from_voice(patient_id, physician_name, language, audio_file, outcome) ==
    LET r == IF audio_file # None /\ Len(audio_file[1]) > 0
             THEN transcribe_audio_file(outcome)
             ELSE record_with_pause_detection(outcome)
        oid == nobjects + 1
        text_note == create_note_from_text(oid, now, r.text, patient_id,
                                           physician_name, language)
    IN  /\ heard' = Some([patient_id |-> patient_id, physician_name |-> physician_name,
                          audio_file |-> audio_file, outcome |-> outcome])
        /\ IF r.raised
           THEN /\ ret' = [NoCall EXCEPT !.op = "create_note_from_voice",
                                         !.raised = TRUE]
                /\ UNCHANGED <<note, nobjects>>
           ELSE /\ ret' = [NoCall EXCEPT !.op = "create_note_from_voice"]
                /\ nobjects' = oid
                /\ note' =
                       IF Len(r.text) = 0
                       THEN Some(ClinicalNote(oid, now, patient_id, physician_name,
                                              language))
                       ELSE IF Len(r.audio) > 0
                            THEN Some([text_note EXCEPT !.audio_data = Some(r.audio)])
                            ELSE Some(text_note)
        /\ UNCHANGED <<now, nedits, clinical_notes, audio_recordings, sqlite_sequence,
                       committed, saved, returned, failed_ids, reports>>
        /\ UNCHANGED parserVars

----------------------------------------------------------------------------
(* The store and one caller *)

\* The ids a caller asks for: every id handed out so far, and one never handed out.
NoteIds == 1..(sqlite_sequence.clinical_notes + 1)

Init ==
    /\ now = 0
    /\ note = None
    /\ nobjects = 0
    /\ nedits = 0
    /\ clinical_notes = {}
    /\ audio_recordings = {}
    /\ sqlite_sequence = [clinical_notes |-> 0, audio_recordings |-> 0]
    /\ committed = [clinical_notes |-> {}, audio_recordings |-> {}]
    /\ ret = NoCall
    /\ saved = <<>>
    /\ returned = <<>>
    /\ failed_ids = {}
    /\ reports = <<>>
    /\ heard = None
    /\ statement = <<>>
    /\ category = "none"
    /\ spoken = <<>>
    /\ transcript = ""
    /\ parsed = None

\* The last call was a read: it left the store as it was.  A read after a read
\* reaches no state that the read alone does not reach, so the next-state
\* relations leave those steps out.
JustRead ==
    \/ ret.op \in {"get_note", "get_statistics", "search_notes"}
    \/ ret.op = "delete_note" /\ ~ret.ok

\* Nothing has been called since the store was opened or since the last
\* save_note or successful delete_note.  The store's reads depend on the tables
\* alone, so Spec and SpecSearch take them at these points only.
Fresh ==
    \/ note = None
    \/ ret.op = "save_note"
    \/ ret.op = "delete_note" /\ ret.ok

\* The caller holds no note, or one that save_note has given an id: the
\* callers of Spec and SpecSearch construct the next note then.
HeldNoteSaved == IF note = None THEN TRUE ELSE note[1].note_id # None

\* The instants the clock shows when a note is constructed, in half-seconds:
\* a whole second and one with a fraction.
Instants == {0, 1}

\* One caller constructs notes, attaches audio, and saves, reads and deletes.
\* The notes are constructed at one instant.
Next ==
    \/ /\ nobjects < MaxObjects
       /\ HeldNoteSaved
       /\ \E c \in Callers : NewNote(now, c[1], c[2], c[3])
    \/ /\ nedits < MaxAudioSets
       /\ \E b \in AudioPayloads : set_audio_data(b)
    \/ /\ sqlite_sequence.clinical_notes < MaxSaves
       /\ \E f \in FailPoints : save_note(f)
    \/ /\ Fresh
       /\ \E id \in NoteIds : get_note(id)
    \/ \E id \in NoteIds :
          /\ ~Fresh => NoteExists(id)
          /\ delete_note(id)
    \/ /\ Fresh
       /\ get_statistics

Spec == Init /\ [][Next]_vars

\* One caller fills notes in, before and after saving them, and reads them back.
NextContent ==
    \/ /\ nobjects < MaxContentObjects
       /\ \E t \in Instants, c \in Callers : NewNote(t, c[1], c[2], c[3])
    \/ /\ nedits < MaxEdits
       /\ \E t \in Texts : add_subjective(t)
    \/ /\ nedits < MaxEdits
       /\ \E t \in Texts : add_objective(t)
    \/ /\ nedits < MaxEdits
       /\ \E t \in Texts : add_assessment(t)
    \/ /\ nedits < MaxEdits
       /\ \E t \in Texts : add_plan(t)
    \/ /\ nedits < MaxEdits
       /\ \E b \in AudioPayloads : set_audio_data(b)
    \/ /\ sqlite_sequence.clinical_notes < MaxContentSaves
       /\ \E f \in FailPoints : save_note(f)
    \/ /\ ~JustRead
       /\ \E id \in NoteIds : get_note(id)
    \/ \E id \in NoteIds :
          /\ JustRead => NoteExists(id)
          /\ delete_note(id)

SpecContent == Init /\ [][NextContent]_vars

\* The filters a caller passes: none, or a patient id, a physician name
\* (non-empty strings) and dates the clock can show.
OptionalOf(S) == {None} \cup {Some(x) : x \in S}
Dates == {Datetime(t) : t \in Instants}
Limits == {0, 1, 2, DefaultLimit}

\* One caller saves and deletes notes and searches them.
NextSearch ==
    \/ /\ nobjects < MaxSearchObjects
       /\ HeldNoteSaved
       /\ \E t \in Instants, c \in Callers : NewNote(t, c[1], c[2], c[3])
    \/ /\ sqlite_sequence.clinical_notes < MaxSearchSaves
       /\ save_note("none")
    \/ \E id \in NoteIds :
          /\ ~Fresh => NoteExists(id)
          /\ delete_note(id)
    \/ /\ Fresh
       /\ \E p \in OptionalOf(Patients), d \in OptionalOf(Physicians),
             from \in OptionalOf(Dates), to \in OptionalOf(Dates), limit \in Limits :
              search_notes(p, d, from, to, limit)

SpecSearch == Init /\ [][NextSearch]_vars

\* Sentences are dictated word by word and categorized.
NextParser ==
    \/ /\ Len(statement) < MaxWords
       /\ \E w \in Words : Dictate(w)
    \/ Categorize

SpecParser == Init /\ [][NextParser]_vars

\* An encounter is spoken utterance by utterance and parsed.
NextEncounter ==
    \/ /\ Len(spoken) < MaxUtterances
       /\ \E phrase \in Phrases, sep \in Separators : Say(phrase, sep)
    \/ /\ parsed = None
       /\ Parse

SpecEncounter == Init /\ [][NextEncounter]_vars

\* What the speech library may do for an audio_file argument.
Outcomes(audio_file) ==
    {Hears(t, b) : t \in Recognized, b \in Recordings}
        \cup {Raises(e) : e \in IF audio_file = None THEN MicrophoneErrors
                                ELSE FileErrors}

\* One caller dictates notes, saves them and has them rendered.
NextVoice ==
    \/ /\ nobjects < MaxVoiceNotes
       /\ \E c \in Callers, f \in AudioFiles : \E o \in Outcomes(f) :
              create_note_from_voice(c[1], c[2], c[3], f, o)
    \/ /\ sqlite_sequence.clinical_notes < MaxVoiceSaves
       /\ save_note("none")
    \/ /\ Len(reports) < MaxReports
       /\ generate_note

SpecVoice == Init /\ [][NextVoice]_vars

----------------------------------------------------------------------------
(* Properties of the store *)

AllIds == 1..(MaxSaves + 1)

\* The note ids and the audio rows' owners in a pair of tables.
NoteIdsIn(notes) == {r.note_id : r \in notes}
OwnersIn(audio) == {a.note_id : a \in audio}

\* A note is persisted when the store's connection reads a row with its id.
Persisted(id) == id \in NoteIdsIn(clinical_notes)

\* C1: a save that failed persists nothing: no note row and no audio row of
\* a failed save is in the durable tables, now or after any later call.
C1_NoPartialCommit ==
    \A id \in failed_ids :
        /\ id \notin NoteIdsIn(committed.clinical_notes)
        /\ id \notin OwnersIn(committed.audio_recordings)

\* C3: every audio row's owning note id is the id of a note row, in the
\* tables the connection reads and in the durable tables.
C3_NoOrphanedAudio ==
    /\ OwnersIn(audio_recordings) \subseteq NoteIdsIn(clinical_notes)
    /\ OwnersIn(committed.audio_recordings) \subseteq NoteIdsIn(committed.clinical_notes)

\* C3 witness: a note with audio has been deleted while another note still
\* owns an audio row.
C3_Witness ==
    /\ ret.op = "delete_note" /\ ret.ok
    /\ sqlite_sequence.audio_recordings = 2
    /\ Cardinality(audio_recordings) = 1

\* The four counts, from the tables.
TotalNotes == Cardinality(NoteIdsIn(clinical_notes))
TotalPatients == Cardinality({p \in Patients : \E r \in clinical_notes : r.patient_id = p})
TotalPhysicians ==
    Cardinality({d \in Physicians : \E r \in clinical_notes : r.physician_name = d})
TotalAudio == Cardinality({a.audio_id : a \in audio_recordings})

\* C4: delete_note of an id with no persisted note returns False and changes
\* neither table, so the four counts stay what they were.
C4_DeleteMissing ==
    [][(ret'.op = "delete_note" /\ ~Persisted(ret'.arg)) =>
          /\ ret'.ok = FALSE
          /\ clinical_notes' = clinical_notes
          /\ audio_recordings' = audio_recordings
          /\ committed' = committed
          /\ <<TotalNotes, TotalPatients, TotalPhysicians, TotalAudio>>'
               = <<TotalNotes, TotalPatients, TotalPhysicians, TotalAudio>>]_vars

\* C4 witness: delete_note returned False for an id that save_note had
\* returned earlier, with notes and audio in the store.
C4_Witness ==
    /\ ret.op = "delete_note" /\ ~ret.ok
    /\ \E i \in 1..Len(returned) : returned[i] = ret.arg
    /\ clinical_notes # {}
    /\ audio_recordings # {}

\* C5: delete_note of a persisted note that owns an audio row returns True,
\* get_note of the id then finds nothing, both counts go down by exactly one,
\* and no row of another note is removed.
C5_DeleteWithAudio ==
    [][\A id \in AllIds :
          (ret'.op = "delete_note" /\ ret'.arg = id /\ Persisted(id)
             /\ id \in OwnersIn(audio_recordings)) =>
          /\ ret'.ok = TRUE
          /\ GetNoteResult(id)' = None
          /\ TotalNotes' = TotalNotes - 1
          /\ TotalAudio' = TotalAudio - 1
          /\ clinical_notes' = {r \in clinical_notes : r.note_id # id}
          /\ audio_recordings' = {a \in audio_recordings : a.note_id # id}]_vars

\* C5 witness: two notes were saved, each with audio, and one of them has just
\* been deleted: one note and one audio row are left.
C5_Witness ==
    /\ ret.op = "delete_note" /\ ret.ok
    /\ failed_ids = {}
    /\ Len(returned) = 2
    /\ sqlite_sequence.audio_recordings = 2
    /\ TotalNotes = 1
    /\ TotalAudio = 1

\* C6: every id save_note returns is greater than every id it returned
\* before, the ids of notes deleted since included.
C6_IdsIncrease ==
    \A i \in 1..Len(returned) : \A j \in 1..Len(returned) :
        i < j => returned[i] < returned[j]

\* C6 witness: a save has returned after the note of the save before it was
\* deleted, and its note is the only one in the store.
C6_Witness ==
    /\ Len(returned) = 2
    /\ ret.op = "save_note"
    /\ NoteIdsIn(clinical_notes) = {returned[2]}

\* C7: once a note object has a note_id, no step changes it.
C7_NoteIdImmutable ==
    [][(note # None /\ note' # None /\ note'[1].oid = note[1].oid
          /\ note[1].note_id # None) =>
       note'[1].note_id = note[1].note_id]_vars

\* C9: get_statistics returns the number of note rows, of distinct patient
\* ids and physician names among them, and of audio rows.
C9_Statistics ==
    ret.op = "get_statistics" =>
        /\ ret.stats.total_notes = TotalNotes
        /\ ret.stats.total_patients = TotalPatients
        /\ ret.stats.total_physicians = TotalPhysicians
        /\ ret.stats.total_audio_recordings = TotalAudio

\* C9 witness: statistics of a store that holds fewer patients than notes
\* and physicians, and fewer audio rows than notes.
C9_Witness ==
    /\ ret.op = "get_statistics"
    /\ ret.stats.total_notes = 2
    /\ ret.stats.total_patients = 1
    /\ ret.stats.total_physicians = 2
    /\ ret.stats.total_audio_recordings = 1

\* The audio rows a note id owns in a table of audio rows.
AudioOf(audio, id) == {a \in audio : a.note_id = id}

\* C15: each persisted note id owns at most one audio row, so there are never
\* more audio rows than notes; in the tables the connection reads and in the
\* durable tables, whatever saves (of one object several times, too) and
\* deletes were made.
C15_OneAudioPerNote ==
    /\ \A id \in NoteIdsIn(clinical_notes) :
           Cardinality(AudioOf(audio_recordings, id)) <= 1
    /\ TotalAudio <= TotalNotes
    /\ \A id \in NoteIdsIn(committed.clinical_notes) :
           Cardinality(AudioOf(committed.audio_recordings, id)) <= 1
    /\ Cardinality(committed.audio_recordings) <= Cardinality(committed.clinical_notes)

\* C15 witness: one note object with audio has been saved twice; each of the
\* two persisted ids owns its audio row.
C15_Witness ==
    /\ nobjects = 1
    /\ ret.op = "save_note"
    /\ Len(returned) = 2
    /\ TotalNotes = 2
    /\ \A id \in NoteIdsIn(clinical_notes) :
           Cardinality(AudioOf(audio_recordings, id)) = 1

----------------------------------------------------------------------------
(* Properties of a note's content *)

\* The note get_note returned carries what the saved note carried.
SameContent(got, s) ==
    /\ got.patient_id = s.patient_id
    /\ got.physician_name = s.physician_name
    /\ got.language = s.language
    /\ got.timestamp = s.timestamp
    /\ got.subjective = s.subjective
    /\ got.objective = s.objective
    /\ got.assessment = s.assessment
    /\ got.plan = s.plan

\* C2: get_note of the id save_note returned gives a note with the saved
\* note's patient id, physician name, language, timestamp, four sections and,
\* if the saved note had an audio payload set, that payload.
C2_RoundTrip ==
    (ret.op = "get_note" /\ ret.arg \in DOMAIN saved) =>
        /\ ret.note # None
        /\ SameContent(ret.note[1], saved[ret.arg])
        /\ saved[ret.arg].audio_data # None =>
               ret.note[1].audio_data = saved[ret.arg].audio_data

\* C2, for the payloads save_note does store: as C2_RoundTrip, the audio
\* payload compared only when it is not empty.
C2_RoundTripNonEmptyAudio ==
    (ret.op = "get_note" /\ ret.arg \in DOMAIN saved) =>
        /\ ret.note # None
        /\ SameContent(ret.note[1], saved[ret.arg])
        /\ ret.note[1].audio_data =
               IF Truthy(saved[ret.arg].audio_data) THEN saved[ret.arg].audio_data
               ELSE None

\* The four sections of a note object.
Sections(n) == <<n.subjective, n.objective, n.assessment, n.plan>>

\* C13: once save_note has given a note object its id, no step (no add_*
\* call) changes the object's four sections, so what get_note returns for the
\* id never lacks an edit the object carries.
C13_SealedAfterSave ==
    [][(note # None /\ note' # None /\ note'[1].oid = note[1].oid
          /\ note[1].note_id # None) =>
       Sections(note'[1]) = Sections(note[1])]_vars

----------------------------------------------------------------------------
(* Properties of search *)

DatetimeLE(a, b) ==
    \/ a.second < b.second
    \/ a.second = b.second /\ a.microsecond <= b.microsecond

\* The persisted notes that satisfy every filter that is supplied.
Satisfying(args) ==
    {r \in clinical_notes :
        /\ args.patient_id # None => r.patient_id = args.patient_id[1]
        /\ args.physician_name # None => r.physician_name = args.physician_name[1]
        /\ args.start_date # None =>
               DatetimeLE(args.start_date[1], fromisoformat(r.timestamp))
        /\ args.end_date # None =>
               DatetimeLE(fromisoformat(r.timestamp), args.end_date[1])}

----------------------------------------------------------------------------
(* Properties of the parser *)

\* Some keyword of the list occurs in the lower-cased sentence.
Occurs(keywords, text) ==
    \E i \in 1..Len(keywords) : In(keywords[i], lower(text))

\* C10: categorize_statement returns one of the four categories: plan when a
\* plan keyword occurs; else assessment when an assessment keyword occurs;
\* else objective when an objective keyword occurs; else subjective.
C10_Priority ==
    category # "none" =>
        LET text == Sentence(statement)
        IN  /\ category \in {"plan", "assessment", "objective", "subjective"}
            /\ Occurs(PLAN_KEYWORDS, text) => category = "plan"
            /\ (~Occurs(PLAN_KEYWORDS, text) /\ Occurs(ASSESSMENT_KEYWORDS, text))
                  => category = "assessment"
            /\ (~Occurs(PLAN_KEYWORDS, text) /\ ~Occurs(ASSESSMENT_KEYWORDS, text)
                  /\ Occurs(OBJECTIVE_KEYWORDS, text)) => category = "objective"
            /\ (~Occurs(PLAN_KEYWORDS, text) /\ ~Occurs(ASSESSMENT_KEYWORDS, text)
                  /\ ~Occurs(OBJECTIVE_KEYWORDS, text)) => category = "subjective"

\* C10 witness: a sentence with a plan keyword, an assessment keyword and a
\* subjective keyword has been categorized as plan.
C10_Witness ==
    /\ category = "plan"
    /\ Occurs(ASSESSMENT_KEYWORDS, Sentence(statement))
    /\ Occurs(SUBJECTIVE_KEYWORDS, Sentence(statement))

----------------------------------------------------------------------------
(* Properties of parse_encounter *)

\* The encounter's text between full stops and line breaks, from what was said.
RECURSIVE Fragments(_, _)
Fragments(utterances, current) ==
    IF utterances = <<>> THEN <<current>>
    ELSE LET u == Head(utterances)
         IN  IF u[2] \in {".", "\n"}
             THEN <<current \o u[1]>> \o Fragments(Tail(utterances), "")
             ELSE Fragments(Tail(utterances), current \o u[1] \o u[2])

\* A fragment without the whitespace around it.
Trimmed(f) ==
    LET ink == {i \in 1..Len(f) : SubSeq(f, i, i) \notin Whitespace}
    IN  IF ink = {} THEN ""
        ELSE SubSeq(f, CHOOSE i \in ink : \A j \in ink : i <= j, Max(ink))

\* The encounter's sentences: its trimmed fragments that are not empty, in
\* the order they were said, repeated ones kept.
SentencesSaid ==
    LET f == Fragments(spoken, "")
    IN  SelectSeq([i \in 1..Len(f) |-> Trimmed(f[i])], LAMBDA t : Len(t) > 0)

\* C11: each of the four sequences parse_encounter returns is the encounter's
\* sentences that categorize_statement assigns to it, in encounter order and
\* with repetitions: every sentence is in exactly one sequence and nothing
\* else is in any.
C11_OrderPreservingPartition ==
    parsed # None =>
        /\ DOMAIN parsed[1] = {"subjective", "objective", "assessment", "plan"}
        /\ \A c \in DOMAIN parsed[1] :
               parsed[1][c] =
                   SelectSeq(SentencesSaid, LAMBDA t : categorize_statement(t) = c)

\* C11 witness: a sentence said twice, the second time after a line break,
\* and a sentence of another category between them.
C11_Witness ==
    /\ parsed # None
    /\ parsed[1].objective = <<"BP up", "BP up">>
    /\ parsed[1].plan = <<"Will treat">>
    /\ spoken[2] = <<"Will treat", "\n">>

----------------------------------------------------------------------------
(* Properties of note creation from voice *)

\* C12: when the speech library raised in create_note_from_voice (no speech,
\* unintelligible audio, service unreachable, file missing, or another
\* error), the call returned normally, with a note of the given patient id
\* and physician name that has four empty sections, no audio payload and no
\* note_id.
C12_TranscriptionFailure ==
    (ret.op = "create_note_from_voice" /\ heard[1].outcome.error # None) =>
        /\ ~ret.raised
        /\ note # None
        /\ note[1].oid = nobjects
        /\ note[1].patient_id = heard[1].patient_id
        /\ note[1].physician_name = heard[1].physician_name
        /\ Sections(note[1]) = <<<<>>, <<>>, <<>>, <<>>>>
        /\ note[1].audio_data = None
        /\ note[1].note_id = None

\* C12 witness: the service was unreachable for a recording from the
\* microphone, and the call has returned.
C12_Witness ==
    /\ ret.op = "create_note_from_voice"
    /\ heard[1].audio_file = None
    /\ heard[1].outcome.error = Some("RequestError")
    /\ heard[1].patient_id = "PT-67890"
    /\ note # None

----------------------------------------------------------------------------
(* Properties of generate_note *)

\* C14: a generate_note call leaves the note object (id, provenance, four
\* sections, audio) and the store as they were, and returns the text that the
\* earlier calls on a note with the same fields returned.
C14_GenerateNotePure ==
    [][Len(reports') > Len(reports) =>
          /\ note' = note
          /\ <<clinical_notes, audio_recordings, sqlite_sequence, committed>>'
               = <<clinical_notes, audio_recordings, sqlite_sequence, committed>>
          /\ \A i \in 1..Len(reports) :
                 reports[i].of = note[1] =>
                     reports'[Len(reports')].text = reports[i].text]_vars

\* C14 witness: generate_note has been called twice on a saved note with
\* sentences and audio, the note not modified in between.
C14_Witness ==
    /\ Len(reports) = 2
    /\ ret.op = "generate_note"
    /\ reports[1].of = reports[2].of
    /\ reports[1].of.note_id # None
    /\ reports[1].of.plan # <<>>
    /\ reports[1].of.audio_data # None
    /\ clinical_notes # {}

====
